---- MODULE Spec2Model ----
(***************************************************************************)
(* A model of conv/g-xxx.c, the sample BRL-CAD converter: describe_tree,   *)
(* the three tree-walker callbacks (region_start, region_end,              *)
(* primitive_func), torusmacro and main.                                   *)
(*                                                                         *)
(* Text is a sequence of one-character strings.  Lengths are integers on a *)
(* grid: one grid step is 2 ticks and stands for 0.0001 model units, so    *)
(* the default tol.dist of 0.0005 is 10 ticks.                             *)
(***************************************************************************)
EXTENDS Integers, Sequences, FiniteSets, TLC

VARIABLES
    pc,        \* position of main: "getopt", "args", "dirbuild", "loop", "walk",
               \* "done", "exited"; "idle" when main is not run
    opts,      \* argv: the options given before the database name
    optind,    \* number of options bu_getopt has consumed
    dbfile,    \* argv[bu_optind]: the database file, or NoArg
    roots,     \* argv[bu_optind+1 ..]: the object names
    db,        \* the directory rt_dirbuild builds: name -> entry
    tol_dist,  \* your_data.tol.dist
    flag,      \* the global torus flag
    i,         \* main's loop index, counted from 1 over roots
    pending,   \* callbacks the running db_walk_tree has still to make
    fired,     \* callbacks made so far
    out,       \* stdout: the records printed
    log,       \* stderr: the diagnostics written by bu_log and bu_exit
    status,    \* the exit status; -1 while the process runs
    dt_tree,   \* describe_tree called alone: its tree argument
    dt_pre,    \* describe_tree called alone: the text in str at the call
    dt_str,    \* describe_tree called alone: the buffer str after the call
    dt_pc      \* describe_tree called alone: "call", "returned", "exited"

vars == <<pc, opts, optind, dbfile, roots, db, tol_dist, flag, i, pending,
          fired, out, log, status, dt_tree, dt_pre, dt_str, dt_pc>>

mainvars == <<pc, opts, optind, dbfile, roots, db, tol_dist, flag, i, pending,
              fired, out, log, status>>

dtvars == <<dt_tree, dt_pre, dt_str, dt_pc>>

-----------------------------------------------------------------------------
(* Bounds *)

\* nodes in a tree handed to describe_tree alone
MaxNodes == 3
\* nodes in the tree of the combination walked in SpecRegion
MaxRegionNodes == 3
\* options on the command line
MaxOpts == 1
\* object names on the command line
MaxRoots == 2

-----------------------------------------------------------------------------
(* Boolean trees (union tree) *)

OP_DB_LEAF == "OP_DB_LEAF"
OP_UNION == "OP_UNION"
OP_INTERSECT == "OP_INTERSECT"
OP_SUBTRACT == "OP_SUBTRACT"
OP_XOR == "OP_XOR"
OP_NOT == "OP_NOT"
OP_GUARD == "OP_GUARD"
OP_XNOP == "OP_XNOP"
OP_NOP == "OP_NOP"
\* a tag of union tree that describe_tree has no case for
OP_SOLID == "OP_SOLID"

BinaryOps == {OP_UNION, OP_INTERSECT, OP_SUBTRACT, OP_XOR}
UnaryOps == {OP_NOT, OP_GUARD, OP_XNOP}

\* the null pointer (union tree *)0
TREE_NULL == [tr_op |-> "TREE_NULL"]

Leaf(name) == [tr_op |-> OP_DB_LEAF, tl_name |-> name]
Node(op, l, r) == [tr_op |-> op, tb_left |-> l, tb_right |-> r]
Nop == [tr_op |-> OP_NOP]
Solid == [tr_op |-> OP_SOLID]

\* object names
NameA == <<"a">>
NameB == <<"b", "(">>
LeafNames == {NameA, NameB}

\* the nodes that have no child
Leaves == {Nop, Solid} \cup {Leaf(n) : n \in LeafNames}

\* the trees of exactly n nodes; the null pointer is the tree of no node
RECURSIVE TreesOf(_)
TreesOf(n) ==
    IF n = 0 THEN {TREE_NULL}
    ELSE (IF n = 1 THEN Leaves ELSE {})
         \cup {Node(op, t, TREE_NULL) : op \in UnaryOps, t \in TreesOf(n - 1)}
         \cup UNION {{Node(op, l, r) : op \in BinaryOps, l \in TreesOf(j),
                                       r \in TreesOf(n - 1 - j)} : j \in 0..(n - 1)}

TreesUpTo(n) == UNION {TreesOf(k) : k \in 0..n}

-----------------------------------------------------------------------------
(* describe_tree *)

DB_OP_UNION == "u"
DB_OP_INTERSECT == "+"
DB_OP_SUBTRACT == "-"
op_xor == "^"

EmptyToken == <<"-", "e", "m", "p", "t", "y", "-">>
NopToken == <<"N", "O", "P">>

\* the switch's assignment to op in the four binary cases
BinaryOpChar(tr_op) ==
    CASE tr_op = OP_UNION -> DB_OP_UNION
      [] tr_op = OP_INTERSECT -> DB_OP_INTERSECT
      [] tr_op = OP_SUBTRACT -> DB_OP_SUBTRACT
      [] tr_op = OP_XOR -> op_xor

\* the marker the three unary cases append after "("
UnaryMark(tr_op) ==
    CASE tr_op = OP_NOT -> "!"
      [] tr_op = OP_GUARD -> "G"
      [] tr_op = OP_XNOP -> "X"

\* BinaryJoin with the closing parenthesis forgotten
BinaryJoin_Unclosed(str, left, op, right) ==
    str \o <<"(">> \o left \o <<" ", op, " ">> \o right

\* BinaryJoin with the operands appended in the wrong order
BinaryJoin_Swapped(str, left, op, right) ==
    str \o <<"(">> \o right \o <<" ", op, " ">> \o left \o <<")">>

\* the label binary: left and right are rendered into fresh buffers and the
\* five appends to str follow
BinaryJoin(str, left, op, right) ==
    str \o <<"(">> \o left \o <<" ", op, " ">> \o right \o <<")">>

\* a default: that leaves the switch instead of ending the process
unrecognized_op_Ignored(str) == [str |-> str, exit |-> FALSE]

\* default: bu_exit(1, "ERROR: describe_tree() got unrecognized op (%d)\n", ...)
unrecognized_op(str) == [str |-> str, exit |-> TRUE]

\* describe_tree(tree, str): the buffer as the call leaves it, and whether
\* the call ended in bu_exit(1, ...)
RECURSIVE describe_tree(_, _)
describe_tree(tree, str) ==
    IF tree = TREE_NULL
    THEN [str |-> str \o EmptyToken, exit |-> FALSE]
    ELSE
      CASE tree.tr_op = OP_DB_LEAF ->
             [str |-> str \o tree.tl_name, exit |-> FALSE]
        [] tree.tr_op \in BinaryOps ->
             LET left == describe_tree(tree.tb_left, <<>>)
             IN  IF left.exit THEN [str |-> str, exit |-> TRUE]
                 ELSE LET right == describe_tree(tree.tb_right, <<>>)
                      IN  IF right.exit THEN [str |-> str, exit |-> TRUE]
                          ELSE [str |-> BinaryJoin(str, left.str,
                                                   BinaryOpChar(tree.tr_op), right.str),
                                exit |-> FALSE]
        [] tree.tr_op \in UnaryOps ->
             LET sub == describe_tree(tree.tb_left,
                                      str \o <<"(", UnaryMark(tree.tr_op)>>)
             IN  IF sub.exit THEN sub
                 ELSE [str |-> sub.str \o <<")">>, exit |-> FALSE]
        [] tree.tr_op = OP_NOP ->
             [str |-> str \o NopToken, exit |-> FALSE]
        [] OTHER ->
             unrecognized_op(str)

-----------------------------------------------------------------------------
(* Numbers: vmath.h as used by primitive_func *)

\* SMALL_FASTF lies far below one grid step (2 ticks); on the grid every
\* value strictly between 0 and 2 gives the same comparisons
SMALL_FASTF == 1

\* your_data.tol.dist = 0.0005 in main
DefaultTolDist == 10

Abs(x) == IF x < 0 THEN -x ELSE x

Isqrt(n) == CHOOSE r \in 0..n : r * r <= n /\ n < (r + 1) * (r + 1)

\* MAGNITUDE(v) = sqrt(v . v); exact for the axis-aligned vectors used here
MAGNITUDE(v) == Isqrt(v[1] * v[1] + v[2] * v[2] + v[3] * v[3])

NEAR_ZERO(val, epsilon) == val > -epsilon /\ val < epsilon

\* EQUAL(a, b) takes no tolerance argument: it compares against SMALL_FASTF
EQUAL(a, b) == NEAR_ZERO(a - b, SMALL_FASTF)

-----------------------------------------------------------------------------
(* Primitive records (struct rt_db_internal) *)

DB5_MAJORTYPE_BRLCAD == "DB5_MAJORTYPE_BRLCAD"
DB5_MAJORTYPE_ATTRIBUTE_ONLY == "DB5_MAJORTYPE_ATTRIBUTE_ONLY"
DB5_MAJORTYPE_BINARY_UNIF == "DB5_MAJORTYPE_BINARY_UNIF"

\* the tags with a case of their own
SpecializedTypes == {"ID_TOR", "ID_TGC", "ID_REC", "ID_ELL", "ID_SPH", "ID_ARB8"}

\* the case labels that share the block under case ID_PARTICLE
ResidualTypes ==
    {"ID_BOT", "ID_ARS", "ID_HALF", "ID_POLY", "ID_BSPLINE", "ID_NMG", "ID_ARBN",
     "ID_DSP", "ID_HF", "ID_EBM", "ID_VOL", "ID_PIPE", "ID_PARTICLE"}

\* the case labels written after that block, which run into default
ListedDefaultTypes ==
    {"ID_RPC", "ID_RHC", "ID_EPA", "ID_EHY", "ID_ETO", "ID_GRIP", "ID_SKETCH",
     "ID_EXTRUDE"}

\* every tag the switch names
KnownTypes == SpecializedTypes \cup ResidualTypes \cup ListedDefaultTypes

\* tags of rt/geom.h the switch does not name
UnnamedTypes == {"ID_SUPERELL", "ID_METABALL"}

\* the null pointer in idb_ptr
PTR_NULL == [struct |-> "NULL"]

\* what the part_vrad read yields when idb_ptr does not point at a
\* struct rt_part_internal: the cast reads some other struct's bytes
GarbageReads == {0, 7}

-----------------------------------------------------------------------------
(* Output records *)

OutRec(kind, name, vals) == [kind |-> kind, name |-> name, vals |-> vals]
LogRec(kind, path, tag) == [kind |-> kind, path |-> path, tag |-> tag]

\* torusmacro(): the three printf calls declaring the macro Torus
torusmacro == <<OutRec("TorusMacro", <<>>, <<>>)>>

\* case ID_TOR without the assignment flag = 1
case_ID_TOR_FlagNotSet(fl) ==
    [out  |-> (IF fl = 0 THEN torusmacro ELSE <<>>) \o <<OutRec("Torus", <<>>, <<>>)>>,
     flag |-> fl]

\* case ID_TOR: the output and the value flag is left with
case_ID_TOR(fl) ==
    [out  |-> (IF fl = 0 THEN torusmacro ELSE <<>>) \o <<OutRec("Torus", <<>>, <<>>)>>,
     flag |-> IF fl = 0 THEN 1 ELSE fl]

\* case ID_TGC with the cone test made before the cylinder test
case_ID_TGC_ConeFirst(tgc) ==
    LET maga == MAGNITUDE(tgc.a)
        magb == MAGNITUDE(tgc.b)
        magc == MAGNITUDE(tgc.c)
        magd == MAGNITUDE(tgc.d)
    IN  IF EQUAL(MAGNITUDE(tgc.a), MAGNITUDE(tgc.b))
        THEN <<OutRec("Cone", <<>>, <<maga, magc>>)>>
        ELSE IF EQUAL(MAGNITUDE(tgc.a), MAGNITUDE(tgc.c))
        THEN <<OutRec("cylinder", <<>>, <<maga>>)>>
        ELSE <<OutRec("Supercone", <<>>, <<maga, magb, magc, magd>>)>>

\* case ID_TGC: cylinder, Cone or Supercone
case_ID_TGC(tgc) ==
    LET maga == MAGNITUDE(tgc.a)
        magb == MAGNITUDE(tgc.b)
        magc == MAGNITUDE(tgc.c)
        magd == MAGNITUDE(tgc.d)
    IN  IF EQUAL(MAGNITUDE(tgc.a), MAGNITUDE(tgc.c))
        THEN <<OutRec("cylinder", <<>>, <<maga>>)>>
        ELSE IF EQUAL(MAGNITUDE(tgc.a), MAGNITUDE(tgc.b))
        THEN <<OutRec("Cone", <<>>, <<maga, magc>>)>>
        ELSE <<OutRec("Supercone", <<>>, <<maga, magb, magc, magd>>)>>

\* the labels above case ID_PARTICLE with no block to run into
case_ID_PARTICLE_NoBlock(vrad) == <<>>

\* the block under case ID_PARTICLE; vrad is what part->part_vrad reads
case_ID_PARTICLE(vrad) == <<OutRec("Round_Cone2", <<>>, <<vrad>>)>>

\* default: of the inner switch
case_default(d_namep, idb_type) ==
    <<LogRec("unsupported_type", <<d_namep>>, idb_type)>>

\* the else branch: the switch on idb_major_type
case_other_major(d_namep, ip) ==
    IF ip.idb_major_type = DB5_MAJORTYPE_BINARY_UNIF
    THEN [out |-> IF ip.idb_ptr # PTR_NULL
                  THEN <<OutRec("binary", d_namep, <<>>)>> ELSE <<>>,
          log |-> <<>>]
    ELSE [out |-> <<>>,
          log |-> <<LogRec("unrecognized_major", <<d_namep>>, ip.idb_major_type)>>]

\* primitive_func(tsp, pathp, ip, client_data): what it appends to stdout
\* and to the log, and the value it leaves in flag.  client_data is UNUSED.
primitive_func(pathp, ip, fl, vrad) ==
    LET d_namep == pathp[Len(pathp)]
        leaf == <<LogRec("leaf_func", pathp, "")>>
    IN  IF ip.idb_major_type = DB5_MAJORTYPE_BRLCAD
        THEN CASE ip.idb_type = "ID_TOR" ->
                    [out |-> case_ID_TOR(fl).out, log |-> leaf,
                     flag |-> case_ID_TOR(fl).flag]
               [] ip.idb_type = "ID_TGC" ->
                    [out |-> case_ID_TGC(ip.idb_ptr), log |-> leaf, flag |-> fl]
               [] ip.idb_type = "ID_REC" ->
                    [out |-> <<OutRec("REC", d_namep, <<>>)>>, log |-> leaf, flag |-> fl]
               [] ip.idb_type = "ID_ELL" ->
                    [out |-> <<OutRec("Spheroid", <<>>, <<>>)>>, log |-> leaf, flag |-> fl]
               [] ip.idb_type = "ID_SPH" ->
                    [out |-> <<OutRec("sphere", <<>>, <<>>)>>, log |-> leaf, flag |-> fl]
               [] ip.idb_type = "ID_ARB8" ->
                    [out |-> <<OutRec("Box", <<>>, <<>>)>>, log |-> leaf, flag |-> fl]
               [] ip.idb_type \in ResidualTypes ->
                    [out |-> case_ID_PARTICLE(vrad), log |-> leaf, flag |-> fl]
               [] OTHER ->
                    [out |-> <<>>, log |-> leaf \o case_default(d_namep, ip.idb_type),
                     flag |-> fl]
        ELSE [out |-> case_other_major(d_namep, ip).out,
              log |-> leaf \o case_other_major(d_namep, ip).log,
              flag |-> fl]

\* the values part->part_vrad can read for this record
PartReads(ip) ==
    IF ip.idb_major_type = DB5_MAJORTYPE_BRLCAD /\ ip.idb_type \in ResidualTypes
    THEN IF ip.idb_type = "ID_PARTICLE" THEN {ip.idb_ptr.part_vrad} ELSE GarbageReads
    ELSE {0}

-----------------------------------------------------------------------------
(* The database directory and db_walk_tree *)

Comb(region_flag, tree) == [kind |-> "comb", region_flag |-> region_flag, tree |-> tree]
Prim(major, type, ptr) ==
    [kind |-> "prim", idb_major_type |-> major, idb_type |-> type, idb_ptr |-> ptr]

Event(kind, path) == [kind |-> kind, path |-> path]

\* the callbacks db_walk_tree makes for one name reached along path, in
\* order: region_start on entering a combination, its tree left to right,
\* region_end after it; primitive_func at a primitive; a report for a name
\* the directory does not hold
RECURSIVE WalkName(_, _, _), WalkTree(_, _, _)
WalkName(d, name, path) ==
    LET p == Append(path, name)
    IN  IF name \notin DOMAIN d THEN <<Event("missing", p)>>
        ELSE IF d[name].kind = "prim" THEN <<Event("prim", p)>>
        ELSE <<Event("start", p)>> \o WalkTree(d, d[name].tree, p) \o <<Event("end", p)>>

WalkTree(d, tree, path) ==
    IF tree = TREE_NULL THEN <<>>
    ELSE CASE tree.tr_op = OP_DB_LEAF -> WalkName(d, tree.tl_name, path)
           [] tree.tr_op \in BinaryOps ->
                WalkTree(d, tree.tb_left, path) \o WalkTree(d, tree.tb_right, path)
           [] tree.tr_op \in UnaryOps -> WalkTree(d, tree.tb_left, path)
           [] OTHER -> <<>>

\* db_walk_tree(dbip, argc, argv, ...): the trees of all argc names, in order
RECURSIVE db_walk_tree(_, _)
db_walk_tree(d, argv) ==
    IF argv = <<>> THEN <<>>
    ELSE WalkName(d, Head(argv), <<>>) \o db_walk_tree(d, Tail(argv))

-----------------------------------------------------------------------------
(* The callbacks *)

\* region_start: the log lines, the header line and the described tree, or
\* the exit describe_tree takes
region_start(pathp, combp) ==
    LET d_namep == pathp[Len(pathp)]
        head == OutRec(IF combp.region_flag THEN "region" ELSE "combination",
                       d_namep, <<>>)
        d == describe_tree(combp.tree, <<>>)
    IN  [log  |-> <<LogRec("region_start", pathp, ""), LogRec("data", <<>>, ""),
                    LogRec("tol", <<>>, "")>>
                  \o (IF d.exit THEN <<LogRec("unrecognized_op", <<>>, "")>> ELSE <<>>),
         out  |-> <<head>> \o (IF d.exit THEN <<>> ELSE <<OutRec("tree", d.str, <<>>)>>),
         exit |-> d.exit]

\* region_end: one log line; curtree is handed back
region_end(pathp) == <<LogRec("region_end", pathp, "")>>

-----------------------------------------------------------------------------
(* The command line *)

NoArg == "NoArg"

Opt(c, arg) == [c |-> c, arg |-> arg]

\* the options tried; "?" is what bu_getopt returns for a letter that is
\* not in the option string
OptionInputs ==
    {Opt("t", "0.0001"), Opt("t", "0.002"), Opt("o", "out.pov"), Opt("x", "1"),
     Opt("C", "1, 2"), Opt("C", "abc"), Opt("C", ""), Opt("V", "abc"),
     Opt("L", "abc"), Opt("l", "1 0 0"), Opt("D", ""), Opt("?", "")}

\* atof(bu_optarg), in ticks
atof(arg) ==
    CASE arg = "0.0001" -> 2
      [] arg = "0.002" -> 40
      [] OTHER -> 0

\* sscanf(bu_optarg, "%g, %g", &a1, &b1): the number of conversions, or EOF
sscanf_C(arg) ==
    CASE arg = "1, 2" -> 2
      [] arg = "1" -> 1
      [] arg = "" -> -1
      [] OTHER -> 0

\* sscanf(bu_optarg, "%g %g %g", ...): the number of conversions, or EOF
sscanf_3(arg) ==
    CASE arg = "1 0 0" -> 3
      [] arg = "" -> -1
      [] OTHER -> 0

usage == <<LogRec("usage", <<>>, "")>>
newline == <<LogRec("newline", <<>>, "")>>

\* the body of the getopt loop for one option: the new tol.dist, what is
\* printed and logged, and whether bu_exit(1, usage, ...) is taken
getopt_case(o, tol) ==
    CASE o.c = "t" -> [tol |-> atof(o.arg), out |-> <<>>, log |-> <<>>, exit |-> FALSE]
      [] o.c = "o" -> [tol |-> tol, out |-> <<>>, log |-> <<>>, exit |-> FALSE]
      [] o.c \in {"x", "X"} ->
           [tol |-> tol, out |-> <<>>,
            log |-> <<LogRec("printb", <<>>, "")>> \o newline, exit |-> FALSE]
      [] o.c = "C" ->
           IF sscanf_C(o.arg) # 0
           THEN [tol |-> tol, out |-> <<OutRec("opt_C", <<>>, <<>>)>>,
                 log |-> newline, exit |-> FALSE]
           ELSE [tol |-> tol, out |-> <<>>, log |-> usage, exit |-> TRUE]
      [] o.c \in {"V", "L", "l"} ->
           [tol |-> tol, out |-> <<OutRec("opt_" \o o.c, <<>>, <<>>)>>,
            log |-> newline, exit |-> FALSE]
      [] o.c = "D" ->
           [tol |-> tol, out |-> <<OutRec("opt_D", <<>>, <<>>)>>,
            log |-> newline, exit |-> FALSE]
      [] OTHER -> [tol |-> tol, out |-> <<>>, log |-> usage, exit |-> TRUE]

-----------------------------------------------------------------------------
(* main *)

\* while ((c = bu_getopt(...)) != -1) { switch (c) ... }: one option
GetOptOption ==
    /\ pc = "getopt"
    /\ optind < Len(opts)
    /\ LET r == getopt_case(opts[optind + 1], tol_dist)
       IN  /\ optind' = optind + 1
           /\ tol_dist' = r.tol
           /\ out' = out \o r.out
           /\ log' = log \o r.log
           /\ pc' = IF r.exit THEN "exited" ELSE "getopt"
           /\ status' = IF r.exit THEN 1 ELSE status
    /\ UNCHANGED <<opts, dbfile, roots, db, flag, i, pending, fired>>
    /\ UNCHANGED dtvars

\* bu_getopt returns -1
GetOptEnd ==
    /\ pc = "getopt"
    /\ optind = Len(opts)
    /\ pc' = "args"
    /\ UNCHANGED <<opts, optind, dbfile, roots, db, tol_dist, flag, i, pending,
                   fired, out, log, status>>
    /\ UNCHANGED dtvars

\* the arguments left after the options: argc - bu_optind
ArgsLeft == IF dbfile = NoArg THEN 0 ELSE 1 + Len(roots)

\* if (bu_optind+1 >= argc) bu_exit(1, usage, argv[0]);
CheckArgs ==
    /\ pc = "args"
    /\ IF ArgsLeft <= 1
       THEN /\ pc' = "exited"
            /\ status' = 1
            /\ log' = log \o usage
       ELSE /\ pc' = "dirbuild"
            /\ UNCHANGED <<status, log>>
    /\ UNCHANGED <<opts, optind, dbfile, roots, db, tol_dist, flag, i, pending,
                   fired, out>>
    /\ UNCHANGED dtvars

\* rt_dirbuild(argv[bu_optind], ...) returns RTI_NULL for a file it cannot open
rt_dirbuild_fails(file) == file = "nofile.g"

\* rtip = rt_dirbuild(...); if (rtip == RTI_NULL) bu_exit(1, ...); bu_optind++
DirBuild ==
    /\ pc = "dirbuild"
    /\ IF rt_dirbuild_fails(dbfile)
       THEN /\ pc' = "exited"
            /\ status' = 1
            /\ log' = log \o <<LogRec("rt_dirbuild failure", <<>>, "")>>
            /\ UNCHANGED i
       ELSE /\ pc' = "loop"
            /\ i' = 1
            /\ UNCHANGED <<status, log>>
    /\ UNCHANGED <<opts, optind, dbfile, roots, db, tol_dist, flag, pending,
                   fired, out>>
    /\ UNCHANGED dtvars

\* the arguments main hands to db_walk_tree in iteration k of its loop:
\* argc - i names starting at argv[i]
WalkArgs(k) == SubSeq(roots, k, Len(roots))

\* for (i = bu_optind; i < argc; i++) db_walk_tree(...); return 0;
LoopStep ==
    /\ pc = "loop"
    /\ IF i <= Len(roots)
       THEN /\ pending' = db_walk_tree(db, WalkArgs(i))
            /\ pc' = "walk"
            /\ UNCHANGED status
       ELSE /\ pc' = "done"
            /\ status' = 0
            /\ UNCHANGED pending
    /\ UNCHANGED <<opts, optind, dbfile, roots, db, tol_dist, flag, i, fired, out, log>>
    /\ UNCHANGED dtvars

\* db_walk_tree calls region_start
RegionStart ==
    /\ pc = "walk"
    /\ pending # <<>>
    /\ Head(pending).kind = "start"
    /\ LET pathp == Head(pending).path
           r == region_start(pathp, db[pathp[Len(pathp)]])
       IN  /\ out' = out \o r.out
           /\ log' = log \o r.log
           /\ pc' = IF r.exit THEN "exited" ELSE "walk"
           /\ status' = IF r.exit THEN 1 ELSE status
    /\ fired' = Append(fired, Head(pending))
    /\ pending' = Tail(pending)
    /\ UNCHANGED <<opts, optind, dbfile, roots, db, tol_dist, flag, i>>
    /\ UNCHANGED dtvars

\* db_walk_tree calls primitive_func
PrimitiveFunc ==
    /\ pc = "walk"
    /\ pending # <<>>
    /\ Head(pending).kind = "prim"
    /\ LET pathp == Head(pending).path
           ip == db[pathp[Len(pathp)]]
       IN  \E vrad \in PartReads(ip) :
             LET r == primitive_func(pathp, ip, flag, vrad)
             IN  /\ out' = out \o r.out
                 /\ log' = log \o r.log
                 /\ flag' = r.flag
    /\ fired' = Append(fired, Head(pending))
    /\ pending' = Tail(pending)
    /\ UNCHANGED <<pc, opts, optind, dbfile, roots, db, tol_dist, i, status>>
    /\ UNCHANGED dtvars

\* db_walk_tree calls region_end
RegionEnd ==
    /\ pc = "walk"
    /\ pending # <<>>
    /\ Head(pending).kind = "end"
    /\ log' = log \o region_end(Head(pending).path)
    /\ fired' = Append(fired, Head(pending))
    /\ pending' = Tail(pending)
    /\ UNCHANGED <<pc, opts, optind, dbfile, roots, db, tol_dist, flag, i, out, status>>
    /\ UNCHANGED dtvars

\* db_walk_tree reports a name the directory does not hold and goes on
MissingName ==
    /\ pc = "walk"
    /\ pending # <<>>
    /\ Head(pending).kind = "missing"
    /\ log' = log \o <<LogRec("missing", Head(pending).path, "")>>
    /\ pending' = Tail(pending)
    /\ UNCHANGED <<pc, opts, optind, dbfile, roots, db, tol_dist, flag, i, fired,
                   out, status>>
    /\ UNCHANGED dtvars

\* db_walk_tree returns; i++
WalkReturn ==
    /\ pc = "walk"
    /\ pending = <<>>
    /\ i' = i + 1
    /\ pc' = "loop"
    /\ UNCHANGED <<opts, optind, dbfile, roots, db, tol_dist, flag, pending, fired,
                   out, log, status>>
    /\ UNCHANGED dtvars

-----------------------------------------------------------------------------
(* describe_tree called alone on a buffer that may already hold text *)

DescribeCall ==
    /\ dt_pc = "call"
    /\ LET r == describe_tree(dt_tree, dt_pre)
       IN  /\ dt_str' = r.str
           /\ dt_pc' = IF r.exit THEN "exited" ELSE "returned"
    /\ UNCHANGED <<dt_tree, dt_pre>>
    /\ UNCHANGED mainvars

-----------------------------------------------------------------------------
(* Databases and initial states *)

SeqsUpTo(S, n) == UNION {[1..k -> S] : k \in 0..n}

NameG == <<"g">>
NameR == <<"r">>
NameX == <<"x">>
NameM == <<"m">>

Torus == Prim(DB5_MAJORTYPE_BRLCAD, "ID_TOR", [struct |-> "rt_tor_internal"])
Particle == Prim(DB5_MAJORTYPE_BRLCAD, "ID_PARTICLE",
                 [struct |-> "rt_part_internal", part_vrad |-> 4])

\* a model: the assembly g holds the region r = a - b( and, beside it, the
\* binary object x and the torus a again
ModelDB ==
    (NameG :> Comb(FALSE, Node(OP_UNION, Leaf(NameR),
                               Node(OP_UNION, Leaf(NameX), Leaf(NameA)))))
    @@ (NameR :> Comb(TRUE, Node(OP_SUBTRACT, Leaf(NameA), Leaf(NameB))))
    @@ (NameA :> Torus)
    @@ (NameB :> Particle)
    @@ (NameX :> Prim(DB5_MAJORTYPE_BINARY_UNIF, "", PTR_NULL))

\* the names tried on the command line; NameM is in no directory
RootNames == {NameG, NameA, NameM}

InitIdle ==
    /\ optind = 0
    /\ tol_dist = DefaultTolDist
    /\ flag = 0
    /\ i = 0
    /\ pending = <<>>
    /\ fired = <<>>
    /\ out = <<>>
    /\ log = <<>>
    /\ status = -1

InitNoDescribe ==
    /\ dt_tree = TREE_NULL
    /\ dt_pre = <<>>
    /\ dt_str = <<>>
    /\ dt_pc = "idle"

\* a run of the program on ModelDB
Init ==
    /\ pc = "getopt"
    /\ opts \in SeqsUpTo(OptionInputs, MaxOpts)
    /\ dbfile \in {NoArg, "model.g", "nofile.g"}
    /\ roots \in IF dbfile = NoArg THEN {<<>>} ELSE SeqsUpTo(RootNames, MaxRoots)
    /\ db = ModelDB
    /\ InitIdle
    /\ InitNoDescribe

Next ==
    \/ GetOptOption
    \/ GetOptEnd
    \/ CheckArgs
    \/ DirBuild
    \/ LoopStep
    \/ RegionStart
    \/ PrimitiveFunc
    \/ RegionEnd
    \/ MissingName
    \/ WalkReturn

Spec == Init /\ [][Next]_vars

\* describe_tree called alone
Prefixes == {<<>>, <<"(", "p">>}

InitDescribe ==
    /\ pc = "idle"
    /\ opts = <<>>
    /\ dbfile = NoArg
    /\ roots = <<>>
    /\ db = ModelDB
    /\ InitIdle
    /\ dt_tree \in TreesUpTo(MaxNodes)
    /\ dt_pre \in Prefixes
    /\ dt_str = dt_pre
    /\ dt_pc = "call"

NextDescribe == DescribeCall

SpecDescribe == InitDescribe /\ [][NextDescribe]_vars

\* a run of the program on a database holding one combination r whose tree
\* is any tree of at most MaxRegionNodes nodes

TreeDB(region_flag, tree) ==
    (NameR :> Comb(region_flag, tree)) @@ (NameA :> Torus) @@ (NameB :> Particle)

InitRegion ==
    /\ pc = "getopt"
    /\ opts = <<>>
    /\ dbfile = "model.g"
    /\ roots = <<NameR>>
    /\ db \in {TreeDB(TRUE, t) : t \in TreesUpTo(MaxRegionNodes)}
    /\ InitIdle
    /\ InitNoDescribe

NextRegion ==
    \/ GetOptEnd
    \/ CheckArgs
    \/ DirBuild
    \/ LoopStep
    \/ RegionStart
    \/ PrimitiveFunc
    \/ RegionEnd
    \/ WalkReturn

SpecRegion == InitRegion /\ [][NextRegion]_vars

\* a run of the program on a database holding one primitive, the only
\* object named on the command line, with or without a -t option
VecA == <<20, 0, 0>>
VecB == <<0, -20, 0>>
VecC == <<0, 0, 24>>
VecD == <<0, 60, 0>>
Vecs == {VecA, VecB, VecC, VecD}

TgcRecords ==
    {Prim(DB5_MAJORTYPE_BRLCAD, "ID_TGC",
          [struct |-> "rt_tgc_internal", a |-> a, b |-> b, c |-> c, d |-> d]) :
       a \in Vecs, b \in Vecs, c \in Vecs, d \in Vecs}

OtherRecords ==
    {Prim(DB5_MAJORTYPE_BRLCAD, t, [struct |-> t]) :
       t \in (KnownTypes \cup UnnamedTypes) \ {"ID_TGC", "ID_PARTICLE"}}
    \cup {Particle}
    \cup {Prim(DB5_MAJORTYPE_BINARY_UNIF, "", p) :
            p \in {PTR_NULL, [struct |-> "rt_binunif_internal"]}}
    \cup {Prim(DB5_MAJORTYPE_ATTRIBUTE_ONLY, "", PTR_NULL)}

PrimRecords == TgcRecords \cup OtherRecords

InitPrim ==
    /\ pc = "getopt"
    /\ opts \in {<<>>, <<Opt("t", "0.0001")>>, <<Opt("t", "0.002")>>}
    /\ dbfile = "model.g"
    /\ roots = <<NameA>>
    /\ db \in {(NameA :> rec) : rec \in PrimRecords}
    /\ InitIdle
    /\ InitNoDescribe

NextPrim ==
    \/ GetOptOption
    \/ GetOptEnd
    \/ CheckArgs
    \/ DirBuild
    \/ LoopStep
    \/ PrimitiveFunc
    \/ WalkReturn

SpecPrim == InitPrim /\ [][NextPrim]_vars

-----------------------------------------------------------------------------
(* Properties *)

Occurrences(seq, x) == Cardinality({k \in DOMAIN seq : seq[k] = x})
KindIndices(seq, kind) == {k \in DOMAIN seq : seq[k].kind = kind}
Callbacks(events) == SelectSeq(events, LAMBDA e : e.kind # "missing")

\* the callbacks of one depth-first traversal of each named root, in the
\* order the roots are given
OneTraversalPerRoot == Callbacks(db_walk_tree(db, roots))

\* C1: when the run is over, the callbacks that have fired are those of one
\* traversal per root named on the command line: primitive_func once per path
\* to a leaf, region_end once per combination after the callbacks of its
\* descendants, and no root's tree a second time.
C1_EachRootTraversedOnce ==
    pc = "done" => fired = OneTraversalPerRoot

TorusVisits ==
    {k \in DOMAIN fired :
       /\ fired[k].kind = "prim"
       /\ db[fired[k].path[Len(fired[k].path)]].idb_major_type = DB5_MAJORTYPE_BRLCAD
       /\ db[fired[k].path[Len(fired[k].path)]].idb_type = "ID_TOR"}

C2_MacroState ==
    LET macros == KindIndices(out, "TorusMacro")
        tori == KindIndices(out, "Torus")
    IN  /\ Cardinality(macros) = IF TorusVisits # {} THEN 1 ELSE 0
        /\ Cardinality(tori) = Cardinality(TorusVisits)
        /\ \A m \in macros : \A t \in tori : m < t
        /\ pc \in {"getopt", "args", "dirbuild", "loop"} /\ fired = <<>> => flag = 0

\* C2: over the whole run the Torus macro declaration is in the output once
\* if a torus has been visited and not at all otherwise, it stands before
\* every Torus record, the flag is 0 until the first traversal, and a flag
\* that is 1 stays 1.
C2_TorusMacroOnce ==
    []C2_MacroState /\ [][flag = 1 => flag' = 1]_vars

\* the torus a has been visited along both of its paths, more than once
C2_Witness ==
    /\ pc = "done"
    /\ Cardinality(KindIndices(out, "Torus")) >= 3
    /\ flag = 1

\* C3: every call of primitive_func leaves an output record or a diagnostic
\* that names the object and its tag, and returns without ending the process.
C3_EveryPrimitiveAnswered ==
    [][(Len(fired') = Len(fired) + 1 /\ fired'[Len(fired')].kind = "prim")
         => /\ pc' # "exited"
            /\ \/ Len(out') > Len(out)
               \/ \E k \in (Len(log) + 1)..Len(log') :
                    log'[k].kind \in {"unsupported_type", "unrecognized_major"}]_vars

\* an option whose value does not parse as the option requires
Malformed(o) ==
    \/ o.c = "C" /\ sscanf_C(o.arg) # 2
    \/ o.c \in {"V", "L", "l"} /\ sscanf_3(o.arg) # 3

\* C6: with a malformed option value, or a database that cannot be opened,
\* no traversal callback fires and the run does not end with status 0.
C6_BadInputNeverTraverses ==
    ((\E k \in DOMAIN opts : Malformed(opts[k])) \/ rt_dirbuild_fails(dbfile))
      => fired = <<>> /\ pc # "done"

\* the primitive record handed to primitive_func in SpecPrim
TheRecord == db[NameA]
IsTgc(ip) == ip.idb_major_type = DB5_MAJORTYPE_BRLCAD /\ ip.idb_type = "ID_TGC"
Called == fired # <<>>

\* the length of an axis-aligned vector
Length(v) == Abs(v[1]) + Abs(v[2]) + Abs(v[3])

Frustums == {"cylinder", "Cone", "Supercone"}
FrustumRecords == {k \in DOMAIN out : out[k].kind \in Frustums}

\* the shape the claim assigns to a frustum when magnitudes x and y count as
\* equal if they differ by less than eps
ShapeOf(tgc, eps) ==
    IF Abs(Length(tgc.a) - Length(tgc.c)) < eps THEN "cylinder"
    ELSE IF Abs(Length(tgc.a) - Length(tgc.b)) < eps THEN "Cone"
    ELSE "Supercone"

\* C4: for a frustum record primitive_func prints exactly one of cylinder,
\* Cone and Supercone: cylinder when |a| equals |c| whatever b and d are,
\* Cone when |a| equals |b| and not |c|, Supercone otherwise, the equality
\* being the one EQUAL makes (a difference below SMALL_FASTF).
C4_FrustumShape ==
    Called /\ IsTgc(TheRecord)
      => /\ Len(out) = 1
         /\ Cardinality(FrustumRecords) = 1
         /\ out[1].kind = ShapeOf(TheRecord.idb_ptr, SMALL_FASTF)

\* a cylinder whose b and d differ from a and from each other
C4_Witness ==
    /\ Called /\ IsTgc(TheRecord)
    /\ out[1].kind = "cylinder"
    /\ Length(TheRecord.idb_ptr.b) = 60
    /\ Length(TheRecord.idb_ptr.d) = 24

\* C5: the magnitude tests use tol.dist: magnitudes that differ by less than
\* the configured tol.dist count as equal.
C5_ToleranceIsTolDist ==
    Called /\ IsTgc(TheRecord)
      => out[1].kind = ShapeOf(TheRecord.idb_ptr, tol_dist)

\* the residual bucket as the claim names it: the labels above the
\* Round_Cone2 block
BucketOfClaim ==
    {"ID_PIPE", "ID_PARTICLE", "ID_BSPLINE", "ID_NMG", "ID_HF", "ID_BOT", "ID_ARS",
     "ID_HALF", "ID_POLY", "ID_ARBN", "ID_DSP", "ID_EBM", "ID_VOL"}

\* the tags the switch names
TagsOfSwitch ==
    BucketOfClaim \cup {"ID_TOR", "ID_TGC", "ID_REC", "ID_ELL", "ID_SPH", "ID_ARB8"}
    \cup {"ID_RPC", "ID_RHC", "ID_EPA", "ID_EHY", "ID_ETO", "ID_GRIP", "ID_SKETCH",
          "ID_EXTRUDE"}

Unsupported ==
    \E k \in DOMAIN log : log[k].kind \in {"unsupported_type", "unrecognized_major"}

InBucket(ip) ==
    ip.idb_major_type = DB5_MAJORTYPE_BRLCAD /\ ip.idb_type \in BucketOfClaim

BucketGetsCapsule ==
    Called /\ InBucket(TheRecord)
      => /\ Len(out) = 1
         /\ out[1].kind = "Round_Cone2"
         /\ ~Unsupported

RECURSIVE Rendering(_)
Rendering(t) ==
    CASE t = TREE_NULL -> <<"-", "e", "m", "p", "t", "y", "-">>
      [] t.tr_op = OP_DB_LEAF -> t.tl_name
      [] t.tr_op = OP_UNION ->
           <<"(">> \o Rendering(t.tb_left) \o <<" ", "u", " ">>
                   \o Rendering(t.tb_right) \o <<")">>
      [] t.tr_op = OP_INTERSECT ->
           <<"(">> \o Rendering(t.tb_left) \o <<" ", "+", " ">>
                   \o Rendering(t.tb_right) \o <<")">>
      [] t.tr_op = OP_SUBTRACT ->
           <<"(">> \o Rendering(t.tb_left) \o <<" ", "-", " ">>
                   \o Rendering(t.tb_right) \o <<")">>
      [] t.tr_op = OP_XOR ->
           <<"(">> \o Rendering(t.tb_left) \o <<" ", "^", " ">>
                   \o Rendering(t.tb_right) \o <<")">>
      [] t.tr_op = OP_NOT -> <<"(", "!">> \o Rendering(t.tb_left) \o <<")">>
      [] t.tr_op = OP_GUARD -> <<"(", "G">> \o Rendering(t.tb_left) \o <<")">>
      [] t.tr_op = OP_XNOP -> <<"(", "X">> \o Rendering(t.tb_left) \o <<")">>
      [] t.tr_op = OP_NOP -> <<"N", "O", "P">>

\* the text of all leaf names of a tree, left to right
RECURSIVE LeafText(_)
LeafText(t) ==
    CASE t = TREE_NULL -> <<>>
      [] t.tr_op = OP_DB_LEAF -> t.tl_name
      [] t.tr_op \in BinaryOps -> LeafText(t.tb_left) \o LeafText(t.tb_right)
      [] t.tr_op \in UnaryOps -> LeafText(t.tb_left)
      [] OTHER -> <<>>

\* by how many the "(" of a text outnumber its ")"
Surplus(text) == Occurrences(text, "(") - Occurrences(text, ")")

\* what the call has appended to the buffer
Appended == SubSeq(dt_str, Len(dt_pre) + 1, Len(dt_str))

\* C7 as stated: in the string describe_tree yields for any tree and any
\* leaf names there are as many "(" as ")".
C7_ParensBalanced ==
    dt_pc = "returned" => Surplus(Appended) = 0

\* C7 amended: the parentheses describe_tree writes itself are balanced, so
\* its result has as many "(" as ")" whenever the leaf names taken together
\* do; a surplus in the result is the surplus of the leaf names.
C7_ParensBalancedUpToNames ==
    dt_pc = "returned" => Surplus(Appended) = Surplus(LeafText(dt_tree))

\* a nested tree with a parenthesis in a leaf name has been described
C7_Witness ==
    /\ dt_pc = "returned"
    /\ dt_tree = Node(OP_XOR, Node(OP_GUARD, TREE_NULL, TREE_NULL), Leaf(NameB))
    /\ Surplus(Appended) = 1

\* C8: the buffer after the call is the text it held before followed by the
\* reference rendering of the tree.
C8_DescribeIsRendering ==
    dt_pc = "returned" => dt_str = dt_pre \o Rendering(dt_tree)

\* a subtraction under a negation has been appended to a buffer holding text
C8_Witness ==
    /\ dt_pc = "returned"
    /\ dt_pre # <<>>
    /\ dt_tree.tr_op = OP_NOT
    /\ dt_tree.tb_left = Node(OP_SUBTRACT, Leaf(NameA), TREE_NULL)
    /\ dt_str = <<"(", "p", "(", "!", "(", "a", " ", "-", " ",
                  "-", "e", "m", "p", "t", "y", "-", ")", ")">>

\* whether a tree holds a node whose tag is none of the nine variants
RECURSIVE HasUnknownTag(_)
HasUnknownTag(t) ==
    /\ t # TREE_NULL
    /\ \/ t.tr_op \notin {OP_DB_LEAF, OP_UNION, OP_INTERSECT, OP_SUBTRACT, OP_XOR,
                          OP_NOT, OP_GUARD, OP_XNOP, OP_NOP}
       \/ /\ t.tr_op \in {OP_UNION, OP_INTERSECT, OP_SUBTRACT, OP_XOR}
          /\ HasUnknownTag(t.tb_left) \/ HasUnknownTag(t.tb_right)
       \/ /\ t.tr_op \in {OP_NOT, OP_GUARD, OP_XNOP}
          /\ HasUnknownTag(t.tb_left)

\* the tree of the combination walked in SpecRegion
TheTree == db[NameR].tree

\* C9: once region_start has described the tree, the process has ended
\* exactly if the tree holds a node of unknown tag; it then has status 1, a
\* diagnostic is the last line of the log, and nothing but the header line of
\* that region_start has been printed and no other callback has fired.  A
\* tree of known variants never ends the process.
C9_FatalIffUnknownTag ==
    /\ Called => (pc = "exited" <=> HasUnknownTag(TheTree))
    /\ pc = "exited"
         => /\ status = 1
            /\ log[Len(log)].kind = "unrecognized_op"
            /\ fired = <<Event("start", <<NameR>>)>>
            /\ Len(out) = 1
            /\ pending = Tail(db_walk_tree(db, roots))

\* the process has ended on an unknown tag below a known operator, with the
\* callback for the leaf beside it still to come
C9_Witness ==
    /\ pc = "exited"
    /\ TheTree = Node(OP_UNION, Leaf(NameA), Solid)
    /\ pending # <<>>
    /\ pending[1].kind = "prim"

====
